---- MODULE Spec2Model ----
(***************************************************************************)
(* Model of src/src/sql_parser.py: the command-line glue that turns the    *)
(* lineage returned by SQLMetadata.extract_sql_statements_lineage into a   *)
(* flat table and writes it as CSV.                                        *)
(*                                                                         *)
(* Python values are modelled as strings; None and pandas' NaN are the     *)
(* marker strings PyNone and NaN.  A Python dict is a sequence of          *)
(* <<key, value>> pairs in insertion order; a list of dict objects is a    *)
(* sequence of references into a heap, so that two list entries can be the *)
(* same object.  A DataFrame is [columns, data]: the ordered column labels *)
(* and one function (label -> value) per row.                              *)
(***************************************************************************)
EXTENDS Naturals, Sequences, FiniteSets, TLC

VARIABLES
    entry,      \* how the module is entered: "__main__", "main" or "convert_sql_to_metadata"
    args,       \* the arguments of main / process
    pc,         \* position of the single thread of control
    err,        \* the exception in flight or propagated ("" when none)
    log,        \* messages handed to LOGGER, in order
    files,      \* process: the files to parse, in discovery order
    fi,         \* process: index in files of the file being parsed (0: none)
    call,       \* convert_sql_to_metadata: its arguments
    lineage,    \* convert_sql_to_metadata: the extractor's mapping, as a sequence of tables
    ti, ci, li, \* convert_sql_to_metadata: positions of the three nested loops
    flat,       \* convert_sql_to_metadata: [heap, rows, row]: dict objects, the list rows, the name row
    emitted,    \* history: for each entry of rows, the (table, column, item) it was appended for
    extracted,  \* history: what the extractor returned, call by call
    metadata,   \* the DataFrame the last call of convert_sql_to_metadata returned
    dfs,        \* process: the list dfs
    outfile     \* the file at --output

vars == <<entry, args, pc, err, log, files, fi, call, lineage, ti, ci, li,
          flat, emitted, extracted, metadata, dfs, outfile>>

-----------------------------------------------------------------------------
(* Bounds of the model. *)

\* tables in one extractor result (direct calls of convert_sql_to_metadata)
MaxTables == 2
\* columns in one extractor result, over all its tables
MaxColumns == 2
\* lineage items attached to one column
MaxItems == 2
\* .sql files found under a directory input
MaxFiles == 2

-----------------------------------------------------------------------------
(* Python values. *)

PyNone == "<None>"
NaN == "<NaN>"

\* Python truthiness of a string-or-None value
Truthy(v) == v # PyNone /\ v # ""

(* dict: <<key, value>> pairs in insertion order *)
DictHas(d, k) == \E i \in 1..Len(d) : d[i][1] = k
DictGet(d, k) == LET i == CHOOSE i \in 1..Len(d) : d[i][1] = k IN d[i][2]
\* d[k] = v for each <<k, v>> of pairs in turn (their keys differ): a key d
\* holds keeps its place and takes the new value, a new key goes to the end
DictUpdate(d, pairs) ==
    LET New(p) == ~DictHas(d, p[1])
    IN [i \in 1..Len(d) |->
            IF DictHas(pairs, d[i][1]) THEN <<d[i][1], DictGet(pairs, d[i][1])>> ELSE d[i]]
       \o SelectSeq(pairs, New)
DictKeys(d) == [i \in 1..Len(d) |-> d[i][1]]

SeqHas(s, x) == \E i \in 1..Len(s) : s[i] = x
SeqSet(s) == {s[i] : i \in 1..Len(s)}

\* s followed by the elements of t that s lacks, in t's order (neither
\* repeats an element: they are the keys of a dict or the labels of a frame)
OrderedUnion(s, t) ==
    LET Lacking(x) == ~SeqHas(s, x) IN s \o SelectSeq(t, Lacking)

-----------------------------------------------------------------------------
(* pandas. *)

\* pd.DataFrame(list of dicts): the labels are the keys in order of first
\* appearance, a key a dict lacks reads NaN; pd.DataFrame([]) has no labels
DataFrame(dicts) ==
    LET RECURSIVE Labels(_, _)
        Labels(acc, ds) ==
            IF ds = <<>> THEN acc
            ELSE Labels(OrderedUnion(acc, DictKeys(Head(ds))), Tail(ds))
        columns == Labels(<<>>, dicts)
    IN [columns |-> columns,
        data |-> [i \in 1..Len(dicts) |->
                    [c \in SeqSet(columns) |->
                        IF DictHas(dicts[i], c) THEN DictGet(dicts[i], c) ELSE NaN]]]

\* one row of a frame, on a wider label set
Reindex(r, labels) == [c \in labels |-> IF c \in DOMAIN r THEN r[c] ELSE NaN]

\* pd.concat(frames, ignore_index=True) of a non-empty list: the labels are
\* united in order of first appearance, the rows follow each other
concat(frames) ==
    LET RECURSIVE Labels(_, _)
        Labels(acc, fs) ==
            IF fs = <<>> THEN acc
            ELSE Labels(OrderedUnion(acc, Head(fs).columns), Tail(fs))
        RECURSIVE Data(_)
        Data(fs) == IF fs = <<>> THEN <<>> ELSE Head(fs).data \o Data(Tail(fs))
        columns == Labels(<<>>, frames)
        data == Data(frames)
    IN [columns |-> columns,
        data |-> [i \in 1..Len(data) |-> Reindex(data[i], SeqSet(columns))]]

\* DataFrame.to_csv(output, index=False): the labels as header, then one line
\* per row in label order; None and NaN are written as the empty field
CsvCell(v) == IF v \in {PyNone, NaN} THEN "" ELSE v
to_csv(df) ==
    [written |-> TRUE,
     header |-> df.columns,
     lines |-> [i \in 1..Len(df.data) |->
                 [j \in 1..Len(df.columns) |-> CsvCell(df.data[i][df.columns[j]])]]]

NoFile == [written |-> FALSE, header |-> <<>>, lines |-> <<>>]
NoFrame == [columns |-> <<>>, data |-> <<>>]

-----------------------------------------------------------------------------
(* convert_sql_to_metadata: the values it builds. *)

\* the labels of the frame metadata starts as
MetadataColumns ==
    <<"filename", "database_name", "cluster_name", "schema_name", "table_name",
      "column_name", "column_data_type", "expression", "message",
      "source_database_name", "source_cluster_name", "source_schema_name",
      "source_table_name", "source_column_name">>

EmptyMetadata == [columns |-> MetadataColumns, data |-> <<>>]

\* (mutant of LineageFound) if lineage is not None
LineageNotNone(result) == result.kind = "dict"

\* if lineage: -- None and the empty mapping are falsy
LineageFound(result) == result.kind = "dict" /\ Len(result.tables) > 0

\* (mutant of ColumnDataType) column_details.get('data_type', 'NA'): the
\* default only when the key is absent
ColumnDataTypeIfAbsent(column_details) ==
    IF column_details.has_data_type THEN column_details.data_type ELSE "NA"

\* column_details.get('data_type') if column_details.get('data_type') else 'NA'
ColumnDataType(column_details) ==
    LET got == IF column_details.has_data_type THEN column_details.data_type ELSE PyNone
    IN IF Truthy(got) THEN got ELSE "NA"

\* (mutant of ColumnRow) schema_name and table_name taken from the arguments
ColumnRowFromArguments(filename, database_name, cluster_name, schema_name, table_name, table_details, column_name, column_details) ==
    <<  <<"filename", filename>>,
        <<"database_name", database_name>>,
        <<"cluster_name", cluster_name>>,
        <<"schema_name", schema_name>>,
        <<"table_name", table_name>>,
        <<"column_name", column_name>>,
        <<"column_data_type", ColumnDataType(column_details)>> >>

\* the dict row built for a column, before its lineage items are visited
ColumnRow(filename, database_name, cluster_name, schema_name, table_name, table_details, column_name, column_details) ==
    <<  <<"filename", filename>>,
        <<"database_name", database_name>>,
        <<"cluster_name", cluster_name>>,
        <<"schema_name", table_details.schema>>,
        <<"table_name", table_details.table>>,
        <<"column_name", column_name>>,
        <<"column_data_type", ColumnDataType(column_details)>> >>

\* the dict row built for a table without columns
NoColumnsRow(filename, database_name, cluster_name, schema_name, table_name, table_details) ==
    <<  <<"filename", filename>>,
        <<"database_name", database_name>>,
        <<"cluster_name", cluster_name>>,
        <<"schema_name", table_details.schema>>,
        <<"table_name", table_details.table>>  >>

\* the nine assignments to lineage_row, in their order
LineageRow(lineage_row, source_database_name, source_cluster_name, lineage_item) ==
    DictUpdate(lineage_row,
        <<  <<"source_database_name", source_database_name>>,
            <<"source_cluster_name", source_cluster_name>>,
            <<"source_schema_name", lineage_item.schema>>,
            <<"source_table_name", lineage_item.table>>,
            <<"source_column_name", lineage_item.column>>,
            <<"expression", lineage_item.expression>>,
            <<"filter_type", lineage_item.filter_type>>,
            <<"filter", lineage_item.filter>>,
            <<"message", lineage_item.message>>  >>)

(* The loops' objects: heap holds the dict objects made so far, rows is the
   list rows (references into heap), row is the object the name row is bound
   to (0 before the first). *)
NoRows == [heap |-> <<>>, rows |-> <<>>, row |-> 0]

\* row = {} and its seven assignments: a new object, not yet in rows
BindRow(f, dict) ==
    [heap |-> Append(f.heap, dict), rows |-> f.rows, row |-> Len(f.heap) + 1]

\* lineage_row = row; ...; rows.append(lineage_row): lineage_row is the object
\* row names, written in place and appended
AppendLineageRow(f, source_database_name, source_cluster_name, lineage_item) ==
    [heap |-> [f.heap EXCEPT ![f.row] =
                 LineageRow(f.heap[f.row], source_database_name,
                            source_cluster_name, lineage_item)],
     rows |-> Append(f.rows, f.row),
     row |-> f.row]

\* (mutant of AppendNoColumnsRow) the row is built and never appended
DropNoColumnsRow(f, dict) ==
    [heap |-> Append(f.heap, dict), rows |-> f.rows, row |-> Len(f.heap) + 1]

\* row = {}; five assignments; rows.append(row)
AppendNoColumnsRow(f, dict) ==
    [heap |-> Append(f.heap, dict),
     rows |-> Append(f.rows, Len(f.heap) + 1),
     row |-> Len(f.heap) + 1]

\* the dicts the list rows holds, entry by entry
Deref(f) == [i \in 1..Len(f.rows) |-> f.heap[f.rows[i]]]

\* metadata = pd.concat([metadata, pd.DataFrame(rows)], ignore_index=True)
MetadataOf(f) == concat(<<EmptyMetadata, DataFrame(Deref(f))>>)

-----------------------------------------------------------------------------
(* The extractor's results the model draws from.  A result is
   [kind, tables]: kind "dict" is a mapping (tables in mapping order, possibly
   none), "None" is the value None, "raise" is an exception.  A table is
   [schema, table, columns], columns a sequence of [name, details] in mapping
   order, details = [has_data_type, data_type, has_lineage, lineage]. *)

Str(prefix, n) == prefix \o ToString(n)

ItemAt(k) ==
    [schema |-> Str("src_schema", k), table |-> Str("src_table", k),
     column |-> Str("src_col", k), expression |-> Str("expr", k),
     filter_type |-> IF k = 1 THEN PyNone ELSE Str("ftype", k),
     filter |-> IF k = 1 THEN PyNone ELSE Str("filter", k),
     message |-> Str("msg", k)]

Items(n) == [k \in 1..n |-> ItemAt(k)]

\* a column varies its data type (absent, None, empty, given) under one
\* lineage item, or its lineage (key absent, or 0..MaxItems items) under a
\* given data type
ColumnDetails ==
    {[has_data_type |-> TRUE, data_type |-> "int", has_lineage |-> TRUE, lineage |-> Items(n)] : n \in 0..MaxItems}
    \cup {[has_data_type |-> TRUE, data_type |-> "int", has_lineage |-> FALSE, lineage |-> <<>>]}
    \cup {[has_data_type |-> TRUE, data_type |-> d, has_lineage |-> TRUE, lineage |-> Items(1)] : d \in {PyNone, ""}}
    \cup {[has_data_type |-> FALSE, data_type |-> PyNone, has_lineage |-> TRUE, lineage |-> Items(1)]}

ColumnsOfLen(c) ==
    {[j \in 1..c |-> [name |-> Str("col", j), details |-> d[j]]] : d \in [1..c -> ColumnDetails]}

TableAt(i, columns) ==
    [schema |-> Str("schema", i), table |-> Str("table", i), columns |-> columns]

\* the mappings of tables i..n that hold at most budget columns in all
RECURSIVE TablesFrom(_, _, _)
TablesFrom(i, n, budget) ==
    IF i > n THEN {<<>>}
    ELSE UNION {{<<TableAt(i, cols)>> \o rest :
                    cols \in ColumnsOfLen(c), rest \in TablesFrom(i + 1, n, budget - c)}
                : c \in 0..budget}

Mappings(maxTables, maxColumns) ==
    UNION {TablesFrom(1, n, maxColumns) : n \in 0..maxTables}

Results(maxTables, maxColumns) ==
    {[kind |-> "dict", tables |-> t] : t \in Mappings(maxTables, maxColumns)}
    \cup {[kind |-> "None", tables |-> <<>>], [kind |-> "raise", tables |-> <<>>]}

\* a direct call of convert_sql_to_metadata sees every result within the bounds
CallResults == Results(MaxTables, MaxColumns)
\* the statements of _test name several tables, with one column in all
ScriptResults == Results(MaxTables, 1)
\* a statement or file given to main names one table of at most one column
RunResults == Results(1, 1)

\* what the extractor may return, by the way the module was entered
ExtractorResults ==
    CASE entry = "convert_sql_to_metadata" -> CallResults
      [] entry = "__main__" -> ScriptResults
      [] OTHER -> RunResults

-----------------------------------------------------------------------------
(* The file system and the arguments. *)

Stmt == "SELECT id FROM t"
FilePath == "orders.sql"
DirPath == "sqldir"

PathStr(f) == f.dir \o f.stem \o f.suffix
DirFile(k) == [dir |-> "sqldir/", stem |-> Str("q", k), suffix |-> ".sql"]
KnownFiles == {[dir |-> "", stem |-> "orders", suffix |-> ".sql"]} \cup {DirFile(k) : k \in 1..(MaxFiles + 1)}

\* os.path.isfile, os.path.isdir
isfile(path) == path = FilePath
isdir(path) == path = DirPath
\* Path(sql_file).stem
stem(sql_file) == (CHOOSE f \in KnownFiles : PathStr(f) = sql_file).stem

\* the keyword arguments of the call of process in _test
TestArgs ==
    [input |-> Stmt, output |-> "./test.csv", database_name |-> "test_db",
     cluster_name |-> "test_cluster", schema_name |-> "test_schema",
     table_name |-> "test_table", source_database_name |-> PyNone,
     source_cluster_name |-> PyNone]

\* what argparse can hand to main: --input and --output are required but may
\* be empty, --table and --schema may be left out (None), --table may be empty
MainArgs ==
    [input : {"", Stmt, FilePath, DirPath}, output : {"", "out.csv"},
     database_name : {"hive"}, cluster_name : {"cobra"},
     schema_name : {PyNone, "sch"}, table_name : {PyNone, "", "tbl"},
     source_database_name : {"oracle"}, source_cluster_name : {"wells_fargo"}]

\* the arguments of a direct call of convert_sql_to_metadata
CallArgs ==
    [filename |-> PyNone, database_name |-> "hive", cluster_name |-> "cobra",
     schema_name |-> "sch", table_name |-> "tbl",
     source_database_name |-> "oracle", source_cluster_name |-> "wells_fargo"]

NoArgs ==
    [input |-> PyNone, output |-> PyNone, database_name |-> PyNone,
     cluster_name |-> PyNone, schema_name |-> PyNone, table_name |-> PyNone,
     source_database_name |-> PyNone, source_cluster_name |-> PyNone]

NoCall ==
    [filename |-> PyNone, database_name |-> PyNone, cluster_name |-> PyNone,
     schema_name |-> PyNone, table_name |-> PyNone,
     source_database_name |-> PyNone, source_cluster_name |-> PyNone]

\* the arguments process (or process_sql_file) passes to convert_sql_to_metadata
ConvertArgs(a, filename, table_name) ==
    [filename |-> filename, database_name |-> a.database_name,
     cluster_name |-> a.cluster_name, schema_name |-> a.schema_name,
     table_name |-> table_name,
     source_database_name |-> a.source_database_name,
     source_cluster_name |-> a.source_cluster_name]

MissingInput == "Missing required arg --input"
MissingOutput == "Missing required arg --output"
MissingTable == "Missing required arg --table when --input is a sql statement"
LineageNotFound == "Column Lineage not found"
ExtractorFailure == "exception raised by extract_sql_statements_lineage"
IOFailure == "OSError"
NothingToConcat == "ValueError: No objects to concatenate"

TableIgnored == "Arg --table ignored when --input is file or dir"
Completed == "Completed sql parsing"
Failed == "Failed to parse sql: "
Done == "Done!"

-----------------------------------------------------------------------------
(* The state machine. *)

Init ==
    /\ entry \in {"__main__", "main", "convert_sql_to_metadata"}
    /\ args \in IF entry = "main" THEN MainArgs ELSE {NoArgs}
    /\ pc = entry
    /\ call = IF entry = "convert_sql_to_metadata" THEN CallArgs ELSE NoCall
    /\ err = ""
    /\ log = <<>>
    /\ files = <<>>
    /\ fi = 0
    /\ lineage = <<>>
    /\ ti = 0 /\ ci = 0 /\ li = 0
    /\ flat = NoRows
    /\ emitted = <<>>
    /\ extracted = <<>>
    /\ metadata = NoFrame
    /\ dfs = <<>>
    /\ outfile = NoFile

\* where an exception raised at the current position lands: the except clause
\* of the __main__ block, or the caller of main / convert_sql_to_metadata
Raised == IF entry = "__main__" THEN "except" ELSE "raised"

\* __main__: try: _test() -- _test calls process with its fixed arguments
test ==
    /\ pc = "__main__"
    /\ args' = TestArgs
    /\ pc' = "process"
    /\ UNCHANGED <<entry, err, log, files, fi, call, lineage, ti, ci, li, flat,
                   emitted, extracted, metadata, dfs, outfile>>

\* (mutant of main) the check of --table for a statement input is left out
main_without_table_check ==
    /\ pc = "main"
    /\ IF ~Truthy(args.input) THEN
            /\ err' = MissingInput /\ pc' = Raised /\ log' = log
       ELSE IF ~Truthy(args.output) THEN
            /\ err' = MissingOutput /\ pc' = Raised /\ log' = log
       ELSE /\ log' = IF (isfile(args.input) \/ isdir(args.input)) /\ Truthy(args.table_name)
                      THEN Append(log, TableIgnored) ELSE log
            /\ pc' = "process"
            /\ err' = err
    /\ UNCHANGED <<entry, args, files, fi, call, lineage, ti, ci, li, flat,
                   emitted, extracted, metadata, dfs, outfile>>

\* main, after parse_args: the four checks, then the call of process
main ==
    /\ pc = "main"
    /\ IF ~Truthy(args.input) THEN
            /\ err' = MissingInput /\ pc' = Raised /\ log' = log
       ELSE IF ~Truthy(args.output) THEN
            /\ err' = MissingOutput /\ pc' = Raised /\ log' = log
       ELSE IF ~isfile(args.input) /\ ~isdir(args.input) /\ ~Truthy(args.table_name) THEN
            /\ err' = MissingTable /\ pc' = Raised /\ log' = log
       ELSE /\ log' = IF (isfile(args.input) \/ isdir(args.input)) /\ Truthy(args.table_name)
                      THEN Append(log, TableIgnored) ELSE log
            /\ pc' = "process"
            /\ err' = err
    /\ UNCHANGED <<entry, args, files, fi, call, lineage, ti, ci, li, flat,
                   emitted, extracted, metadata, dfs, outfile>>

\* process, input is a file: dfs = []; process_sql_file(sql_file=input, ...)
process_file ==
    /\ pc = "process"
    /\ isfile(args.input)
    /\ dfs' = <<>>
    /\ files' = <<args.input>>
    /\ fi' = 1
    /\ pc' = "process_sql_file"
    /\ UNCHANGED <<entry, args, err, log, call, lineage, ti, ci, li, flat,
                   emitted, extracted, metadata, outfile>>

\* process, input is a directory: rglob('*.sql') finds K files, in some order
process_dir ==
    /\ pc = "process"
    /\ ~isfile(args.input) /\ isdir(args.input)
    /\ dfs' = <<>>
    /\ \E K \in 0..MaxFiles :
        /\ files' = [k \in 1..K |-> PathStr(DirFile(k))]
        /\ fi' = IF K = 0 THEN 0 ELSE 1
        /\ pc' = IF K = 0 THEN "concat" ELSE "process_sql_file"
    /\ UNCHANGED <<entry, args, err, log, call, lineage, ti, ci, li, flat,
                   emitted, extracted, metadata, outfile>>

\* process, input is a statement: convert_sql_to_metadata(filename=None, ...)
process_stmt ==
    /\ pc = "process"
    /\ ~isfile(args.input) /\ ~isdir(args.input)
    /\ dfs' = <<>>
    /\ files' = <<>>
    /\ fi' = 0
    /\ call' = ConvertArgs(args, PyNone, args.table_name)
    /\ pc' = "convert_sql_to_metadata"
    /\ UNCHANGED <<entry, args, err, log, lineage, ti, ci, li, flat,
                   emitted, extracted, metadata, outfile>>

\* process_sql_file: log, open and read the file (which may fail), call
\* convert_sql_to_metadata with the file's stem as table_name
process_sql_file ==
    /\ pc = "process_sql_file"
    /\ log' = Append(log, "SQL Parsing " \o files[fi])
    /\ \E readable \in BOOLEAN :
        IF readable
        THEN /\ call' = ConvertArgs(args, files[fi], stem(files[fi]))
             /\ pc' = "convert_sql_to_metadata"
             /\ err' = err
        ELSE /\ err' = IOFailure
             /\ pc' = Raised
             /\ call' = call
    /\ UNCHANGED <<entry, args, files, fi, lineage, ti, ci, li, flat,
                   emitted, extracted, metadata, dfs, outfile>>

\* convert_sql_to_metadata up to the loops: the extractor is called; its
\* exception propagates, a falsy result raises, a mapping starts rows = []
extract ==
    /\ pc = "convert_sql_to_metadata"
    /\ \E result \in ExtractorResults :
        /\ extracted' = Append(extracted, result)
        /\ IF result.kind = "raise" THEN
                /\ err' = ExtractorFailure /\ pc' = Raised
                /\ UNCHANGED <<lineage, ti, flat, emitted>>
           ELSE IF ~LineageFound(result) THEN
                /\ err' = LineageNotFound /\ pc' = Raised
                /\ UNCHANGED <<lineage, ti, flat, emitted>>
           ELSE /\ lineage' = result.tables
                /\ flat' = NoRows
                /\ emitted' = <<>>
                /\ ti' = 1
                /\ pc' = "for_table"
                /\ err' = err
    /\ UNCHANGED <<entry, args, log, files, fi, call, ci, li, metadata, dfs, outfile>>

\* for fq_table_name, table_details in lineage.items(): the next table; one
\* without columns gets its row at once
for_table ==
    /\ pc = "for_table"
    /\ IF ti > Len(lineage) THEN
            /\ pc' = "return"
            /\ UNCHANGED <<ti, ci, flat, emitted>>
       ELSE IF Len(lineage[ti].columns) > 0 THEN
            /\ ci' = 1
            /\ pc' = "for_column"
            /\ UNCHANGED <<ti, flat, emitted>>
       ELSE /\ flat' = AppendNoColumnsRow(flat,
                          NoColumnsRow(call.filename, call.database_name, call.cluster_name,
                                       call.schema_name, call.table_name, lineage[ti]))
            /\ emitted' = Append(emitted, [table |-> ti, column |-> 0, item |-> 0])
            /\ ti' = ti + 1
            /\ pc' = "for_table"
            /\ ci' = ci
    /\ UNCHANGED <<entry, args, err, log, files, fi, call, lineage, li,
                   extracted, metadata, dfs, outfile>>

\* for column_name, column_details in table_details['columns'].items(): the
\* next column's row = {...}; its lineage loop is entered if it has the key
for_column ==
    /\ pc = "for_column"
    /\ IF ci > Len(lineage[ti].columns) THEN
            /\ ti' = ti + 1
            /\ pc' = "for_table"
            /\ UNCHANGED <<ci, li, flat>>
       ELSE LET column == lineage[ti].columns[ci] IN
            /\ flat' = BindRow(flat,
                          ColumnRow(call.filename, call.database_name, call.cluster_name,
                                    call.schema_name, call.table_name, lineage[ti],
                                    column.name, column.details))
            /\ IF column.details.has_lineage
               THEN li' = 1 /\ pc' = "for_lineage_item" /\ ci' = ci
               ELSE li' = li /\ pc' = "for_column" /\ ci' = ci + 1
            /\ ti' = ti
    /\ UNCHANGED <<entry, args, err, log, files, fi, call, lineage, emitted,
                   extracted, metadata, dfs, outfile>>

\* column_details['lineage'] of column c of table t of the mapping
ItemsOf(t, c) == lineage[t].columns[c].details.lineage

\* for lineage_item in column_details['lineage']: the next item's row
for_lineage_item ==
    /\ pc = "for_lineage_item"
    /\ IF li > Len(ItemsOf(ti, ci)) THEN
            /\ ci' = ci + 1
            /\ pc' = "for_column"
            /\ UNCHANGED <<li, flat, emitted>>
       ELSE /\ flat' = AppendLineageRow(flat, call.source_database_name,
                                        call.source_cluster_name, ItemsOf(ti, ci)[li])
            /\ emitted' = Append(emitted, [table |-> ti, column |-> ci, item |-> li])
            /\ li' = li + 1
            /\ pc' = "for_lineage_item"
            /\ ci' = ci
    /\ UNCHANGED <<entry, args, err, log, files, fi, call, lineage, ti,
                   extracted, metadata, dfs, outfile>>

\* the end of convert_sql_to_metadata: the frame is built from rows, logged and
\* returned; process appends it to dfs and goes on to the next file, if any
return_metadata ==
    /\ pc = "return"
    /\ metadata' = MetadataOf(flat)
    /\ log' = Append(log, Completed)
    /\ IF entry = "convert_sql_to_metadata" THEN
            /\ pc' = "returned"
            /\ UNCHANGED <<dfs, fi>>
       ELSE /\ dfs' = Append(dfs, metadata')
            /\ IF fi < Len(files)
               THEN fi' = fi + 1 /\ pc' = "process_sql_file"
               ELSE fi' = fi /\ pc' = "concat"
    /\ UNCHANGED <<entry, args, err, files, call, lineage, ti, ci, li, flat,
                   emitted, extracted, outfile>>

\* combined_df = pd.concat(dfs, ignore_index=True), which raises on an empty
\* list; combined_df.to_csv(output, index=False), which may fail to write
write ==
    /\ pc = "concat"
    /\ IF dfs = <<>> THEN
            /\ err' = NothingToConcat /\ pc' = Raised /\ outfile' = outfile
       ELSE \E writable \in BOOLEAN :
            IF writable
            THEN /\ outfile' = to_csv(concat(dfs))
                 /\ pc' = IF entry = "__main__" THEN "finally" ELSE "returned"
                 /\ err' = err
            ELSE /\ err' = IOFailure /\ pc' = Raised /\ outfile' = outfile
    /\ UNCHANGED <<entry, args, log, files, fi, call, lineage, ti, ci, li, flat,
                   emitted, extracted, metadata, dfs>>

\* (mutant of except_handler) the handler logs the trace and ends the run
except_handler_exits ==
    /\ pc = "except"
    /\ log' = Append(log, Failed)
    /\ pc' = "exit"
    /\ UNCHANGED <<entry, args, err, files, fi, call, lineage, ti, ci, li, flat,
                   emitted, extracted, metadata, dfs, outfile>>

\* __main__: except Exception as e: LOGGER.exception(...)
except_handler ==
    /\ pc = "except"
    /\ log' = Append(log, Failed)
    /\ pc' = "finally"
    /\ UNCHANGED <<entry, args, err, files, fi, call, lineage, ti, ci, li, flat,
                   emitted, extracted, metadata, dfs, outfile>>

\* __main__: finally: LOGGER.info("Done!")
finally_clause ==
    /\ pc = "finally"
    /\ log' = Append(log, Done)
    /\ pc' = "exit"
    /\ UNCHANGED <<entry, args, err, files, fi, call, lineage, ti, ci, li, flat,
                   emitted, extracted, metadata, dfs, outfile>>

Next ==
    \/ test
    \/ main
    \/ process_file
    \/ process_dir
    \/ process_stmt
    \/ process_sql_file
    \/ extract
    \/ for_table
    \/ for_column
    \/ for_lineage_item
    \/ return_metadata
    \/ write
    \/ except_handler
    \/ finally_clause

Spec == Init /\ [][Next]_vars

(* The module run as a script: the __main__ block calls _test, which calls
   process with a statement; the interpreter runs the one thread until it
   ends. *)
InitScript == Init /\ entry = "__main__"

NextScript ==
    \/ test
    \/ process_stmt
    \/ extract
    \/ for_table
    \/ for_column
    \/ for_lineage_item
    \/ return_metadata
    \/ write
    \/ except_handler
    \/ finally_clause

ScriptSpec == InitScript /\ [][NextScript]_vars /\ WF_vars(NextScript)

-----------------------------------------------------------------------------
(* convert_sql_to_metadata as a function of its arguments and of the mapping
   the extractor returned: the three loops run to their end. *)

RECURSIVE LineageLoop(_, _, _, _)
LineageLoop(f, a, items, k) ==
    IF k > Len(items) THEN f
    ELSE LineageLoop(AppendLineageRow(f, a.source_database_name, a.source_cluster_name, items[k]),
                     a, items, k + 1)

RECURSIVE ColumnLoop(_, _, _, _)
ColumnLoop(f, a, table_details, j) ==
    IF j > Len(table_details.columns) THEN f
    ELSE LET column == table_details.columns[j]
             bound == BindRow(f, ColumnRow(a.filename, a.database_name, a.cluster_name,
                                           a.schema_name, a.table_name, table_details,
                                           column.name, column.details))
         IN ColumnLoop(IF column.details.has_lineage
                       THEN LineageLoop(bound, a, column.details.lineage, 1)
                       ELSE bound,
                       a, table_details, j + 1)

RECURSIVE TableLoop(_, _, _, _)
TableLoop(f, a, tables, i) ==
    IF i > Len(tables) THEN f
    ELSE TableLoop(IF Len(tables[i].columns) > 0
                   THEN ColumnLoop(f, a, tables[i], 1)
                   ELSE AppendNoColumnsRow(f, NoColumnsRow(a.filename, a.database_name,
                                                           a.cluster_name, a.schema_name,
                                                           a.table_name, tables[i])),
                   a, tables, i + 1)

convert_sql_to_metadata(a, tables) == MetadataOf(TableLoop(NoRows, a, tables, 1))

\* the arguments of the n-th call of convert_sql_to_metadata in a run of process
NthCall(n) ==
    IF files = <<>> THEN ConvertArgs(args, PyNone, args.table_name)
    ELSE ConvertArgs(args, files[n], stem(files[n]))

\* the frame the stepwise loops return is the one the function gives
StepsAgreeWithFunction ==
    pc \in {"returned", "concat", "process_sql_file"} /\ metadata # NoFrame
        => metadata = convert_sql_to_metadata(call, lineage)

-----------------------------------------------------------------------------
(* Claims. *)

\* a call of convert_sql_to_metadata has returned its frame, and lineage,
\* emitted and metadata are still those of that call
AfterReturn ==
    /\ pc \in {"returned", "concat", "process_sql_file", "convert_sql_to_metadata"}
    /\ metadata # NoFrame

\* row r of a frame carries the lineage fields of item
CarriesItem(r, item) ==
    /\ r["source_schema_name"] = item.schema
    /\ r["source_table_name"] = item.table
    /\ r["source_column_name"] = item.column
    /\ r["expression"] = item.expression
    /\ r["filter_type"] = item.filter_type
    /\ r["filter"] = item.filter
    /\ r["message"] = item.message

\* C1: in the frame convert_sql_to_metadata returns, the row appended for
\* lineage item k of a column of a table carries the source schema, table,
\* column, expression, filter_type, filter and message of item k -- for every
\* table, column and item, also when a column has several differing items.
C1_RowsCarryTheirItem ==
    AfterReturn =>
        \A t \in 1..Len(lineage) : \A c \in 1..Len(lineage[t].columns) :
            \A k \in 1..Len(ItemsOf(t, c)) :
                \E i \in 1..Len(emitted) :
                    /\ emitted[i] = [table |-> t, column |-> c, item |-> k]
                    /\ CarriesItem(metadata.data[i], ItemsOf(t, c)[k])

RECURSIVE ItemCount(_)
ItemCount(columns) ==
    IF columns = <<>> THEN 0
    ELSE Len(Head(columns).details.lineage) + ItemCount(Tail(columns))

RECURSIVE RowCount(_)
RowCount(tables) ==
    IF tables = <<>> THEN 0
    ELSE (IF Head(tables).columns = <<>> THEN 1 ELSE ItemCount(Head(tables).columns))
         + RowCount(Tail(tables))

\* C2: the frame returned for a non-empty lineage result has as many rows as
\* the sum over its tables of 1 for a table without columns, and otherwise of
\* the number of lineage items over the table's columns.
C2_RowCount ==
    AfterReturn => Len(metadata.data) = RowCount(lineage)

\* C2's case: a result with a table without columns and a table whose columns
\* hold three lineage items in all has been flattened
C2_Witness ==
    /\ pc = "returned" /\ entry = "convert_sql_to_metadata"
    /\ Len(lineage) = 2
    /\ \E t \in 1..2 : lineage[t].columns = <<>>
    /\ \E t \in 1..2 : Len(lineage[t].columns) = 2 /\ ItemCount(lineage[t].columns) = 3
    /\ Len(metadata.data) = 4

\* None, or a mapping of no table
EmptyResult(result) == result.kind = "None" \/ (result.kind = "dict" /\ result.tables = <<>>)

\* C3: once the extractor has returned an empty (falsy) result for a statement,
\* the run has failed with the lineage-not-found error and the output file is
\* not written, whatever was processed before.
C3_EmptyLineageFailsRun ==
    (\E n \in 1..Len(extracted) : EmptyResult(extracted[n]))
        => /\ err = LineageNotFound
           /\ pc \in {"raised", "except", "finally", "exit"}
           /\ ~outfile.written

\* C3's case: the second file of a directory has no lineage, after the first
\* file's rows were collected
C3_Witness ==
    /\ isdir(args.input)
    /\ Len(extracted) = 2 /\ EmptyResult(extracted[2])
    /\ Len(dfs) = 1 /\ Len(dfs[1].data) > 0
    /\ pc = "raised"

RECURSIVE RowsBefore(_, _)
RowsBefore(tables, n) ==
    IF n = 1 THEN 0 ELSE RowsBefore(tables, n - 1) + Len(tables[n - 1].data)

\* the lines of the written file are the rows of the frames of tables, frame
\* after frame and row after row, each field under its label
LinesAreRowsOf(tables) ==
    /\ Len(outfile.lines) = RowsBefore(tables, Len(tables) + 1)
    /\ \A n \in 1..Len(tables) : \A r \in 1..Len(tables[n].data) :
        \A j \in 1..Len(tables[n].columns) :
            \E h \in 1..Len(outfile.header) :
                /\ outfile.header[h] = tables[n].columns[j]
                /\ outfile.lines[RowsBefore(tables, n) + r][h]
                        = CsvCell(tables[n].data[r][tables[n].columns[j]])

\* the frames process_sql_file returns for the files of the run, each alone
FrameOfEachFile ==
    [n \in 1..Len(files) |-> convert_sql_to_metadata(NthCall(n), extracted[n].tables)]

\* process has gone through every file of a directory input with no failure
\* of a file, of the extractor or of the write
DirectoryProcessed ==
    /\ entry = "main" /\ isdir(args.input)
    /\ pc \in {"returned", "raised"}
    /\ err \in {"", NothingToConcat}

\* C4: for a directory input holding K .sql files, for every K, the table
\* written to the output is the concatenation of the K tables that
\* process_sql_file returns for each file alone, in discovery order, no row
\* added, dropped or reordered.
C4_DirectoryConcat ==
    DirectoryProcessed => outfile.written /\ LinesAreRowsOf(FrameOfEachFile)

\* the same for a directory that holds at least one .sql file
DirectoryConcatFromOneFile ==
    DirectoryProcessed /\ Len(files) >= 1
        => outfile.written /\ LinesAreRowsOf(FrameOfEachFile)

MissingArgument == {MissingInput, MissingOutput, MissingTable}
Literal == ~isfile(args.input) /\ ~isdir(args.input)

\* main has passed its checks and called process
ProcessCalled ==
    \/ pc \in {"process", "process_sql_file", "convert_sql_to_metadata", "for_table",
               "for_column", "for_lineage_item", "return", "concat", "returned"}
    \/ pc = "raised" /\ err \in {IOFailure, ExtractorFailure, LineageNotFound, NothingToConcat}

StatementWithoutTableFails ==
    Literal /\ args.table_name = PyNone /\ pc # "main"
        => /\ err \in MissingArgument /\ pc = "raised"
           /\ extracted = <<>> /\ ~outfile.written

\* C5 as stated: a statement input without --table makes main fail with the
\* missing-argument error, the extractor never called and nothing written;
\* a file or directory input with --table passes validation and process is
\* called.
C5_Original ==
    entry = "main" =>
        /\ StatementWithoutTableFails
        /\ (~Literal /\ args.table_name # PyNone /\ pc # "main"
                => err \notin MissingArgument /\ ProcessCalled)

\* C5 amended: the same, the second half for a non-empty --output.
C5_Validation ==
    entry = "main" =>
        /\ StatementWithoutTableFails
        /\ (~Literal /\ args.table_name # PyNone /\ Truthy(args.output) /\ pc # "main"
                => err \notin MissingArgument /\ ProcessCalled)

\* C5's case: main was given a directory, --table and an --output, has warned
\* and called process
C5_Witness ==
    /\ entry = "main" /\ isdir(args.input) /\ Truthy(args.table_name)
    /\ pc = "process" /\ log = <<TableIgnored>>

OutputRowFields ==
    <<"filename", "database_name", "cluster_name", "schema_name", "table_name",
      "column_name", "column_data_type", "expression", "message",
      "source_database_name", "source_cluster_name", "source_schema_name",
      "source_table_name", "source_column_name", "filter_type", "filter">>

\* C6: every written output file has the 16 fields of the output row as its
\* header, in their order, whatever the lineage results were.
C6_Header ==
    outfile.written => outfile.header = OutputRowFields

InLoops == pc \in {"for_table", "for_column", "for_lineage_item"}

\* C7: while the loops of convert_sql_to_metadata run, a step leaves every row
\* already in the list rows as it was: no field of it changes.
C7_RowsNotMutated ==
    [][InLoops => \A i \in 1..Len(flat.rows) :
                    flat'.heap[flat.rows[i]] = flat.heap[flat.rows[i]]]_vars

\* C8: every row emitted for a column has column_data_type equal to the
\* column's data_type when that is given and non-empty, and "NA" when the key
\* is absent or its value is None or empty.
C8_DataType ==
    AfterReturn =>
        \A i \in 1..Len(emitted) :
            emitted[i].column > 0 =>
                LET d == lineage[emitted[i].table].columns[emitted[i].column].details
                IN metadata.data[i]["column_data_type"]
                     = IF d.has_data_type /\ d.data_type \notin {PyNone, ""}
                       THEN d.data_type ELSE "NA"

\* C8's case: a frame was returned with a row of a column without data_type
\* key and a row of a column whose data_type is given
C8_Witness ==
    /\ pc = "returned" /\ entry = "convert_sql_to_metadata"
    /\ \E i, j \in 1..Len(emitted) :
        /\ emitted[i].column > 0 /\ emitted[j].column > 0
        /\ ~lineage[emitted[i].table].columns[emitted[i].column].details.has_data_type
        /\ metadata.data[i]["column_data_type"] = "NA"
        /\ metadata.data[j]["column_data_type"] = "int"

Logged(m) == {i \in 1..Len(log) : log[i] = m}

\* the completion message is logged at most once, and never before the trace
\* of an exception of the run
CompletionInOrder ==
    /\ Cardinality(Logged(Done)) <= 1
    /\ \A i \in Logged(Failed) : \A j \in Logged(Done) : i < j
    /\ Logged(Done) # {} /\ err # "" => Logged(Failed) # {}

\* C9: every run of the __main__ block, whether processing succeeds or raises
\* at any step, ends with the completion message logged, exactly once, and
\* after the exception trace when there is one.
C9_Completion ==
    /\ []CompletionInOrder
    /\ <>(pc = "exit" /\ Cardinality(Logged(Done)) = 1)

\* C9's case: a run of the __main__ block failed for want of lineage, and has
\* logged the trace and then the completion message
C9_Witness ==
    /\ entry = "__main__" /\ pc = "exit" /\ err = LineageNotFound
    /\ log = <<Failed, Done>>

SchemaArguments == {PyNone, "sch", "schema1"}
TableArguments == {PyNone, "tbl", "q1"}

\* C10: the schema_name and table_name arguments never influence the output:
\* with any other values for them and the same extractor results,
\* convert_sql_to_metadata returns the same frame and process writes the same
\* file.
C10_ArgumentsIgnored ==
    /\ pc = "returned" /\ entry = "convert_sql_to_metadata" =>
        \A s \in SchemaArguments, t \in TableArguments :
            convert_sql_to_metadata([call EXCEPT !.schema_name = s, !.table_name = t],
                                    lineage) = metadata
    /\ outfile.written =>
        \A s \in SchemaArguments, t \in TableArguments :
            outfile = to_csv(concat(
                [n \in 1..Len(extracted) |->
                    convert_sql_to_metadata(
                        [NthCall(n) EXCEPT !.schema_name = s, !.table_name = t],
                        extracted[n].tables)]))

\* C10's case: a file was written for a --schema that none of its rows names
C10_Witness ==
    /\ entry = "main" /\ args.schema_name = "sch" /\ isfile(args.input)
    /\ outfile.written
    /\ Len(outfile.lines) > 0
    /\ \A i \in 1..Len(outfile.lines) : outfile.lines[i][4] = "schema1"

====
